---- MODULE Spec2Model ----
(***************************************************************************)
(* VidTransHeb (src/app.py): a Telegram handler that extracts the audio of *)
(* a video, transcribes it, translates the segments, rebuilds an SRT file  *)
(* and burns it into the video.                                            *)
(*                                                                         *)
(* Conventions of the model                                                *)
(*  - A Python str is a sequence of one-character strings.                 *)
(*  - A Python float holding a time in seconds is written as the whole     *)
(*    number of milliseconds t it was obtained from: the float is the      *)
(*    IEEE-754 double nearest to t/1000.  The rounding error of that       *)
(*    double is computed exactly (RoundingError) and carried through the   *)
(*    arithmetic of convert_seconds_to_srt_time.                           *)
(***************************************************************************)
EXTENDS Integers, Sequences, FiniteSets, TLC

VARIABLES
    pc,               \* position inside handle_video
    duration,         \* message.video.duration (seconds)
    calls,            \* external calls made so far, in order
    files,            \* temp files of this run currently on disk
    temp_paths,       \* keys registered in the temp_paths dict
    whisper,          \* transcription response: [segments, text]
    translated_texts, \* json.loads of the LLM answer
    final_segments,   \* segment list rebuilt by get_transcript_and_translation
    srt,              \* final_translated_srt
    engine,           \* outcome of get_transcript_and_translation
    exc,              \* the exception raised in this run (type, msg, stage)
    arg,              \* argument of a helper called on its own
    ret,              \* its return value
    called            \* whether the helper has returned

vars == <<pc, duration, calls, files, temp_paths, whisper, translated_texts,
          final_segments, srt, engine, exc, arg, ret, called>>

pipelineVars == <<pc, duration, calls, files, temp_paths, whisper,
                  translated_texts, final_segments, srt, engine, exc>>

helperVars == <<arg, ret, called>>

----------------------------------------------------------------------------
(* Bounds of the model *)

\* largest time, in milliseconds, given to convert_seconds_to_srt_time alone
MaxMs == 1500

\* longest segment text, in characters, given to generate_new_srt alone
MaxTextLen == 2

\* most segments given to generate_new_srt alone
MaxSrtSegs == 2

\* most segments the transcription returns in a handle_video run
MaxSegs == 2

\* most entries the translation returns in a handle_video run
MaxTrans == 3

----------------------------------------------------------------------------
(* Strings and number formatting *)

DigitChars == <<"0", "1", "2", "3", "4", "5", "6", "7", "8", "9">>

\* str(n) for n >= 0
RECURSIVE Decimal(_)
Decimal(n) ==
    IF n < 10 THEN <<DigitChars[n + 1]>>
    ELSE Decimal(n \div 10) \o <<DigitChars[(n % 10) + 1]>>

\* the format spec {n:0w}: at least w digits, zero-padded on the left
RECURSIVE ZeroPad(_, _)
ZeroPad(s, w) == IF Len(s) >= w THEN s ELSE ZeroPad(<<"0">> \o s, w)

Format0(n, w) == ZeroPad(Decimal(n), w)

\* str.isspace: every character for which Python's str.isspace() is true.
\* A character that cannot be written in a string of this language is
\* named by its code point.
IsSpace(c) ==
    c \in {" ", "\t", "\n", "\r", "\f",
           "U+000B", "U+001C", "U+001D", "U+001E", "U+001F", "U+0085",
           "U+00A0", "U+1680", "U+2000", "U+2001", "U+2002", "U+2003",
           "U+2004", "U+2005", "U+2006", "U+2007", "U+2008", "U+2009",
           "U+200A", "U+2028", "U+2029", "U+202F", "U+205F", "U+3000"}

RECURSIVE LStrip(_)
LStrip(s) == IF s # <<>> /\ IsSpace(Head(s)) THEN LStrip(Tail(s)) ELSE s

RECURSIVE RStrip(_)
RStrip(s) ==
    IF s # <<>> /\ IsSpace(s[Len(s)]) THEN RStrip(SubSeq(s, 1, Len(s) - 1))
    ELSE s

\* str.strip()
Strip(s) == LStrip(RStrip(s))

----------------------------------------------------------------------------
(* convert_seconds_to_srt_time, lines 105-112.                             *)
(* The argument is the double x nearest to t/1000.  With a the binary      *)
(* exponent of x and k = 52 - a, x = M / 2^k for a 53-bit integer M, and   *)
(* x = t/1000 + c / (1000 * 2^k) where c = 1000*M - t*2^k is the centred   *)
(* remainder of -t*2^k modulo 1000.                                        *)

RECURSIVE Pow2Mod1000(_)
Pow2Mod1000(k) == IF k = 0 THEN 1 ELSE (2 * Pow2Mod1000(k - 1)) % 1000

RECURSIVE Pow2(_)
Pow2(k) == IF k = 0 THEN 1 ELSE 2 * Pow2(k - 1)

RECURSIVE FloorLog2(_)
FloorLog2(n) == IF n < 2 THEN 0 ELSE 1 + FloorLog2(n \div 2)

\* least j with m <= 2^j
RECURSIVE CeilLog2(_)
CeilLog2(m) == IF m <= 1 THEN 0 ELSE 1 + CeilLog2((m + 1) \div 2)

\* least n with t * 2^n >= 1000, for 1 <= t
RECURSIVE ShiftTo1000(_)
ShiftTo1000(t) == IF t >= 1000 THEN 0 ELSE 1 + ShiftTo1000(2 * t)

\* a with 2^a <= t/1000 < 2^(a+1), for t >= 1
BinaryExponent(t) ==
    IF t >= 1000 THEN FloorLog2(t \div 1000) ELSE 0 - ShiftTo1000(t)

\* c: the double is t/1000 + c / (1000 * 2^(52 - a)).  A tie (remainder 500)
\* needs t * 2^k = 4 (mod 8), impossible for k >= 3.
RoundingError(t) ==
    LET k == 52 - BinaryExponent(t)
        r == ((t % 1000) * Pow2Mod1000(k)) % 1000
    IN  IF r < 500 THEN 0 - r ELSE 1000 - r

\* line 110: int((remaining_seconds - int(remaining_seconds)) * 1000).
\* The subtraction is exact and leaves m/1000 + c/(1000*2^k); the product
\* is the double nearest to m + c/2^k; int() truncates it.  Below m the
\* doubles are 2^(j-52) apart (2^j < m <= 2^(j+1)), so the product
\* rounds up to m exactly when |c| / 2^k <= 2^(j-53).
Milliseconds(t) ==
    LET m == t % 1000
        a == BinaryExponent(t)
        c == RoundingError(t)
        e == (CeilLog2(m) - 1) - a - 1
    IN  IF m = 0 THEN 0
        ELSE IF c >= 0 THEN m
        ELSE IF e >= 0 /\ (0 - c) <= Pow2(e) THEN m
        ELSE m - 1

convert_seconds_to_srt_time(t) ==
    LET s == t \div 1000
        hours == s \div 3600
        minutes == (s % 3600) \div 60
        remaining == s % 60
    IN  Format0(hours, 2) \o <<":">> \o Format0(minutes, 2) \o <<":">>
        \o Format0(remaining, 2) \o <<",">> \o Format0(Milliseconds(t), 3)

----------------------------------------------------------------------------
(* generate_new_srt, lines 114-128 *)

\* lines 121-126: what one iteration appends to new_srt
SrtEntry(i, segment) ==
    Decimal(i) \o <<"\n">>
    \o convert_seconds_to_srt_time(segment.start) \o <<" ", "-", "-", ">", " ">>
    \o convert_seconds_to_srt_time(segment.end) \o <<"\n">>
    \o segment.text \o <<"\n", "\n">>

RECURSIVE SrtBody(_, _)
SrtBody(segs, i) ==
    IF i > Len(segs) THEN <<>>
    ELSE SrtEntry(i, segs[i]) \o SrtBody(segs, i + 1)

generate_new_srt(translated_segments) == Strip(SrtBody(translated_segments, 1))

----------------------------------------------------------------------------
(* safe_send_error_message, lines 48-72.                                   *)
(* The texts it handles run to thousands of characters, so a text is kept  *)
(* run-length encoded: a sequence of runs [unit, n], the string unit       *)
(* repeated n times.  A run of a literal of the source is written with the *)
(* unit "_", a character html.escape leaves alone.                         *)

Run(u, n) == [unit |-> u, n |-> n]

Lit(n) == <<Run(<<"_">>, n)>>

\* len()
RECURSIVE TextLen(_)
TextLen(text) ==
    IF text = <<>> THEN 0
    ELSE Len(Head(text).unit) * Head(text).n + TextLen(Tail(text))

\* text[:k], for a text whose units are single characters
RECURSIVE Prefix(_, _)
Prefix(text, k) ==
    IF text = <<>> \/ k <= 0 THEN <<>>
    ELSE IF Head(text).n >= k THEN <<Run(Head(text).unit, k)>>
    ELSE <<Head(text)>> \o Prefix(Tail(text), k - Head(text).n)

\* html.escape(c) with quote=True, for one character
EscapeChar(c) ==
    CASE c = "&" -> <<"&", "a", "m", "p", ";">>
      [] c = "<" -> <<"&", "l", "t", ";">>
      [] c = ">" -> <<"&", "g", "t", ";">>
      [] c = "\"" -> <<"&", "q", "u", "o", "t", ";">>
      [] c = "'" -> <<"&", "#", "x", "2", "7", ";">>
      [] OTHER -> <<c>>

RECURSIVE EscapeUnit(_)
EscapeUnit(u) ==
    IF u = <<>> THEN <<>> ELSE EscapeChar(Head(u)) \o EscapeUnit(Tail(u))

\* html.escape(text)
RECURSIVE HtmlEscape(_)
HtmlEscape(text) ==
    IF text = <<>> THEN <<>>
    ELSE <<Run(EscapeUnit(Head(text).unit), Head(text).n)>>
         \o HtmlEscape(Tail(text))

\* line 57
MAX_TRACEBACK_LEN == 3000

\* Telegram's limit on a message text, named in the docstring (line 50)
MAX_MESSAGE_LEN == 4096

\* line 54: len("❌ <b>שגיאה קריטית:</b> ") and len("\n\n")
HeaderLen == 23

HeaderEndLen == 2

\* line 60: len("\n... [המשך השגיאה קוצץ] ...")
CutNoteLen == 27

\* line 65: len("<u>פרטים טכניים:</u>\n<pre>") and len("</pre>")
DetailsOpenLen == 26

DetailsCloseLen == 6

\* lines 59-60
CutTraceback(full_traceback) ==
    IF TextLen(full_traceback) > MAX_TRACEBACK_LEN
    THEN Prefix(full_traceback, MAX_TRACEBACK_LEN) \o Lit(CutNoteLen)
    ELSE full_traceback

\* lines 54-65: the full_message handed to the first bot.send_message
ErrorFullMessage(error_message, full_traceback) ==
    Lit(HeaderLen) \o error_message \o Lit(HeaderEndLen)
    \o ( IF full_traceback # <<>>
         THEN Lit(DetailsOpenLen) \o HtmlEscape(CutTraceback(full_traceback))
              \o Lit(DetailsCloseLen)
         ELSE <<>> )

\* lines 67-72: the messages handed to bot.send_message, in order; the
\* fallback is sent when the first send raises ApiTelegramException
safe_send_error_message(error_message, full_traceback, first_raises) ==
    <<[fn |-> "send_message", kind |-> "error",
       text |-> ErrorFullMessage(error_message, full_traceback)]>>
    \o ( IF first_raises
         THEN <<[fn |-> "send_message", kind |-> "error_fallback",
                 text |-> <<>>]>>
         ELSE <<>> )

----------------------------------------------------------------------------
(* Inputs of a handle_video run *)

\* line 244
MAX_DURATION == 300

Durations == {MAX_DURATION - 1, MAX_DURATION, MAX_DURATION + 1}

\* (start, end) of a transcribed segment, in milliseconds; the last one
\* ends after the five-minute mark
Spans == {<<0, 2000>>, <<2000, 4000>>, <<4000, 301001>>}

SourceText == <<"h", "i">>

Segments == {[start |-> sp[1], end |-> sp[2], text |-> SourceText] : sp \in Spans}

SeqsUpTo(S, n) == UNION {[1..k -> S] : k \in 0..n}

\* what groq_client.audio.transcriptions.create may return
WhisperResponses ==
    {[segments |-> sg, text |-> SourceText] : sg \in SeqsUpTo(Segments, MaxSegs)}
    \cup {[segments |-> <<>>, text |-> <<>>]}

HebrewTexts == {<<"a">>, <<"b">>}

\* what json.loads may return when the LLM answers with an array of strings
TranslatedArrays == SeqsUpTo(HebrewTexts, MaxTrans)

\* what traceback.format_exc() may return (run-length encoded)
PipelineTracebacks == {<<Run(<<"x">>, 400)>>, <<Run(<<"\"">>, 3000)>>}

----------------------------------------------------------------------------
(* Exceptions *)

NoException ==
    [type |-> "none", stage |-> "none", text |-> "", expected |-> 0, got |-> 0,
     wrapped |-> FALSE]

Exception(type, stage, text) ==
    [type |-> type, stage |-> stage, text |-> text, expected |-> 0, got |-> 0,
     wrapped |-> FALSE]

\* lines 215-217: any exception of the try block is re-raised as
\* RuntimeError("Groq API call failed during processing. Error: {e}")
Wrap(e) == [e EXCEPT !.type = "RuntimeError", !.wrapped = TRUE]

\* lines 211-214: a JSONDecodeError is re-raised as RuntimeError
JsonError ==
    Exception("RuntimeError", "malformed",
              "LLM translation failed to return clean JSON output for parsing")

\* line 157
NoSegmentsError ==
    Exception("RuntimeError", "no_segments",
              "Whisper did not return valid segments for synchronization.")

\* line 194
MismatchError(n, m) ==
    [Exception("RuntimeError", "mismatch", "Translation segments mismatch")
        EXCEPT !.expected = n, !.got = m]

\* line 193: len() of a JSON number, true, false or null raises TypeError
NotArrayError == Exception("TypeError", "not_array", "object has no len()")

\* line 101
BurnError == Exception("RuntimeError", "burn", "FFMPEG Encoding Failed")

----------------------------------------------------------------------------
(* get_transcript_and_translation, lines 130-222 *)

\* line 156: not hasattr(response, 'segments') or not response.segments
NoValidSegmentsUnlessText(response) ==
    response.segments = <<>> /\ response.text = <<>>

NoValidSegmentsNever(response) == FALSE

NoValidSegments(response) == response.segments = <<>>

\* line 193
CountMismatchShortOnly(n, m) == m < n

CountMismatch(n, m) == m # n

\* lines 198-204
RebuildReversed(original_segments, texts) ==
    [i \in 1..Len(original_segments) |->
        [start |-> original_segments[i].start,
         end |-> original_segments[i].end,
         text |-> texts[Len(original_segments) + 1 - i]]]

Rebuild(original_segments, texts) ==
    [i \in 1..Len(original_segments) |->
        [start |-> original_segments[i].start,
         end |-> original_segments[i].end,
         text |-> texts[i]]]

----------------------------------------------------------------------------
(* burn_subtitles_fast, lines 75-103: the exception it raises, given the   *)
(* type of the exception ffmpeg's run raised ("none": it returned).        *)
(* ffmpeg.Error (type name "Error") becomes RuntimeError, lines 100-101;   *)
(* any other exception is re-raised as it is, lines 102-103.               *)

BurnSwallows(run_error) == NoException

burn_subtitles_fast(run_error) ==
    CASE run_error = "none" -> NoException
      [] run_error = "Error" -> BurnError
      [] OTHER -> Exception(run_error, "burn", "ffmpeg")

\* what ffmpeg's run may raise: ffmpeg.Error, or another exception such as
\* FileNotFoundError when the ffmpeg binary is missing
FfmpegErrors == {"Error", "FileNotFoundError"}

----------------------------------------------------------------------------
(* handle_video, lines 238-345 *)

\* line 244
TooLongOffByOne(d) == d > MAX_DURATION + 1

TooLong(d) == d > MAX_DURATION

Call(fn, kind) == [fn |-> fn, kind |-> kind, text |-> <<>>]

\* line 334: len("אירעה שגיאה קריטית במהלך העיבוד (") and len(").")
ErrorNoteLen == 33

ErrorNoteEndLen == 2

\* line 329: len(type(e).__name__)
TypeNameLen(type) == Len(type)

\* lines 332-334: the error_message given to safe_send_error_message
ErrorNote(type) ==
    Lit(ErrorNoteLen) \o Lit(TypeNameLen(type)) \o Lit(ErrorNoteEndLen)

PipelineInit ==
    /\ pc = "start"
    /\ duration \in Durations
    /\ calls = <<>>
    /\ files = {}
    /\ temp_paths = {}
    /\ whisper = [segments |-> <<>>, text |-> <<>>]
    /\ translated_texts = <<>>
    /\ final_segments = <<>>
    /\ srt = <<>>
    /\ engine = "idle"
    /\ exc = NoException

engineVars == <<whisper, translated_texts, final_segments, srt, engine>>

\* lines 244-246
CheckDuration ==
    /\ pc = "start"
    /\ IF TooLong(duration)
       THEN /\ calls' = Append(calls, Call("send_message", "too_long"))
            /\ pc' = "done"
       ELSE /\ calls' = calls
            /\ pc' = "fetch"
    /\ UNCHANGED <<duration, files, temp_paths, engineVars, exc, helperVars>>

\* lines 249-256: outside the try block, an exception leaves the handler
FetchVideo ==
    /\ pc = "fetch"
    /\ \E outcome \in {"ok", "get_file_raises", "download_raises"} :
         CASE outcome = "ok" ->
                /\ calls' = calls \o <<Call("get_file", "ok"),
                                       Call("send_message", "ack"),
                                       Call("download_file", "ok")>>
                /\ pc' = "save_video"
                /\ exc' = exc
           [] outcome = "get_file_raises" ->
                /\ calls' = Append(calls, Call("get_file", "raises"))
                /\ pc' = "done"
                /\ exc' = Exception("ApiTelegramException", "fetch", "get_file")
           [] outcome = "download_raises" ->
                /\ calls' = calls \o <<Call("get_file", "ok"),
                                       Call("send_message", "ack"),
                                       Call("download_file", "raises")>>
                /\ pc' = "done"
                /\ exc' = Exception("ApiTelegramException", "fetch", "download_file")
    /\ UNCHANGED <<duration, files, temp_paths, engineVars, helperVars>>

\* lines 260-263: the file exists from line 260 on and is registered at 263
SaveVideo ==
    /\ pc = "save_video"
    /\ files' = files \cup {"video"}
    /\ \E write_raises \in BOOLEAN :
         IF write_raises
         THEN /\ exc' = Exception("OSError", "save_video", "write")
              /\ temp_paths' = temp_paths
              /\ pc' = "except"
         ELSE /\ exc' = exc
              /\ temp_paths' = temp_paths \cup {"video"}
              /\ pc' = "extract"
    /\ UNCHANGED <<duration, calls, engineVars, helperVars>>

\* lines 266-282
ExtractAudio ==
    /\ pc = "extract"
    /\ files' = files \cup {"audio"}
    /\ temp_paths' = temp_paths \cup {"audio"}
    /\ \E outcome \in {"ok", "small"} \cup FfmpegErrors :
         CASE outcome = "ok" ->
                /\ calls' = calls \o <<Call("ffmpeg_extract", "ok"),
                                       Call("edit_message_text", "2/4")>>
                /\ exc' = exc
                /\ pc' = "engine_copy"
           [] outcome \in FfmpegErrors ->
                /\ calls' = Append(calls, Call("ffmpeg_extract", "raises"))
                /\ exc' = Exception(outcome, "extract", "ffmpeg")
                /\ pc' = "except"
           [] outcome = "small" ->
                /\ calls' = calls \o <<Call("ffmpeg_extract", "small"),
                                       Call("edit_message_text", "no_audio")>>
                /\ exc' = exc
                /\ pc' = "finally"
    /\ UNCHANGED <<duration, engineVars, helperVars>>

\* lines 138-140: the copy of the audio is written before the try block, so
\* a failed write leaves get_transcript_and_translation without its finally
EngineCopyAudio ==
    /\ pc = "engine_copy"
    /\ files' = files \cup {"engine_audio"}
    /\ \E write_raises \in BOOLEAN :
         IF write_raises
         THEN /\ exc' = Exception("OSError", "engine_copy", "write")
              /\ engine' = "raised"
              /\ pc' = "except"
         ELSE /\ exc' = exc
              /\ engine' = "running"
              /\ pc' = "transcribe"
    /\ UNCHANGED <<duration, calls, temp_paths, whisper, translated_texts,
                   final_segments, srt, helperVars>>

\* get_transcript_and_translation raises e: lines 211-222, then the caller's
\* except block is next
EngineRaises(e) ==
    /\ exc' = e
    /\ engine' = "raised"
    /\ files' = files \ {"engine_audio"}
    /\ pc' = "except"

\* lines 145-160
Transcribe ==
    /\ pc = "transcribe"
    /\ \/ /\ calls' = Append(calls, Call("transcribe", "raises"))
          /\ whisper' = whisper
          /\ EngineRaises(Wrap(Exception("APIError", "transcribe", "groq")))
       \/ \E response \in WhisperResponses :
            /\ calls' = Append(calls, Call("transcribe", "ok"))
            /\ whisper' = response
            /\ IF NoValidSegments(response)
               THEN EngineRaises(Wrap(NoSegmentsError))
               ELSE /\ pc' = "translate"
                    /\ UNCHANGED <<files, engine, exc>>
    /\ UNCHANGED <<duration, temp_paths, translated_texts, final_segments, srt,
                   helperVars>>

\* lines 168-191
Translate ==
    /\ pc = "translate"
    /\ \/ /\ calls' = Append(calls, Call("translate", "raises"))
          /\ translated_texts' = translated_texts
          /\ EngineRaises(Wrap(Exception("APIError", "translate", "groq")))
       \/ /\ calls' = Append(calls, Call("translate", "malformed"))
          /\ translated_texts' = translated_texts
          /\ EngineRaises(JsonError)
       \/ /\ calls' = Append(calls, Call("translate", "not_array"))
          /\ translated_texts' = translated_texts
          /\ EngineRaises(Wrap(NotArrayError))
       \/ \E texts \in TranslatedArrays :
            /\ calls' = Append(calls, Call("translate", "array"))
            /\ translated_texts' = texts
            /\ pc' = "reconcile"
            /\ UNCHANGED <<files, engine, exc>>
    /\ UNCHANGED <<duration, temp_paths, whisper, final_segments, srt,
                   helperVars>>

\* lines 193-209 and the finally of lines 219-222
Reconcile ==
    /\ pc = "reconcile"
    /\ IF CountMismatch(Len(whisper.segments), Len(translated_texts))
       THEN /\ EngineRaises(Wrap(MismatchError(Len(whisper.segments),
                                               Len(translated_texts))))
            /\ UNCHANGED <<final_segments, srt>>
       ELSE /\ final_segments' = Rebuild(whisper.segments, translated_texts)
            /\ srt' = generate_new_srt(final_segments')
            /\ engine' = "returned"
            /\ files' = files \ {"engine_audio"}
            /\ pc' = "check_srt"
            /\ exc' = exc
    /\ UNCHANGED <<duration, calls, temp_paths, whisper, translated_texts,
                   helperVars>>

\* lines 291-295
CheckSrt ==
    /\ pc = "check_srt"
    /\ IF srt = <<>>
       THEN /\ calls' = Append(calls, Call("edit_message_text", "no_text"))
            /\ pc' = "finally"
       ELSE /\ calls' = Append(calls, Call("edit_message_text", "3/4"))
            /\ pc' = "write_sub"
    /\ UNCHANGED <<duration, files, temp_paths, engineVars, exc, helperVars>>

\* lines 298-303: registered at line 299, before the write
WriteSub ==
    /\ pc = "write_sub"
    /\ files' = files \cup {"sub"}
    /\ temp_paths' = temp_paths \cup {"sub"}
    /\ \E write_raises \in BOOLEAN :
         IF write_raises
         THEN /\ exc' = Exception("OSError", "write_sub", "write")
              /\ pc' = "except"
         ELSE /\ exc' = exc
              /\ pc' = "burn"
    /\ UNCHANGED <<duration, calls, engineVars, helperVars>>

\* lines 306-312
Burn ==
    /\ pc = "burn"
    /\ files' = files \cup {"output"}
    /\ temp_paths' = temp_paths \cup {"output"}
    /\ \E run_error \in {"none"} \cup FfmpegErrors :
         IF burn_subtitles_fast(run_error) # NoException
         THEN /\ calls' = Append(calls, Call("burn", "raises"))
              /\ exc' = burn_subtitles_fast(run_error)
              /\ pc' = "except"
         ELSE /\ calls' = calls \o
                    <<Call("burn", IF run_error = "none" THEN "ok" ELSE "raises"),
                      Call("edit_message_text", "4/4")>>
              /\ exc' = exc
              /\ pc' = "send"
    /\ UNCHANGED <<duration, engineVars, helperVars>>

\* lines 315-326
SendResult ==
    /\ pc = "send"
    /\ \E send_raises \in BOOLEAN :
         IF send_raises
         THEN /\ calls' = Append(calls, Call("send_video", "raises"))
              /\ exc' = Exception("ApiTelegramException", "send_video", "send_video")
              /\ pc' = "except"
         ELSE /\ calls' = calls \o <<Call("send_video", "ok"),
                                     Call("delete_message", "ok")>>
              /\ exc' = exc
              /\ pc' = "finally"
    /\ UNCHANGED <<duration, files, temp_paths, engineVars, helperVars>>

\* lines 328-336; Telegram refuses a text longer than MAX_MESSAGE_LEN
HandleException ==
    /\ pc = "except"
    /\ \E tb \in PipelineTracebacks, first_raises \in BOOLEAN :
         /\ TextLen(ErrorFullMessage(ErrorNote(exc.type), tb)) > MAX_MESSAGE_LEN
               => first_raises
         /\ calls' = calls \o
               safe_send_error_message(ErrorNote(exc.type), tb, first_raises)
    /\ pc' = "finally"
    /\ UNCHANGED <<duration, files, temp_paths, engineVars, exc, helperVars>>

\* lines 338-345
Cleanup ==
    /\ pc = "finally"
    /\ files' = files \ temp_paths
    /\ pc' = "done"
    /\ UNCHANGED <<duration, calls, temp_paths, engineVars, exc, helperVars>>

Init ==
    /\ PipelineInit
    /\ arg = <<>>
    /\ ret = <<>>
    /\ called = FALSE

Next ==
    \/ CheckDuration
    \/ FetchVideo
    \/ SaveVideo
    \/ ExtractAudio
    \/ EngineCopyAudio
    \/ Transcribe
    \/ Translate
    \/ Reconcile
    \/ CheckSrt
    \/ WriteSub
    \/ Burn
    \/ SendResult
    \/ HandleException
    \/ Cleanup

Spec == Init /\ [][Next]_vars

----------------------------------------------------------------------------
(* The helpers called on their own, on inputs drawn from bounded sets *)

IdlePipeline ==
    /\ pc = "idle"
    /\ duration = 0
    /\ calls = <<>>
    /\ files = {}
    /\ temp_paths = {}
    /\ whisper = [segments |-> <<>>, text |-> <<>>]
    /\ translated_texts = <<>>
    /\ final_segments = <<>>
    /\ srt = <<>>
    /\ engine = "idle"
    /\ exc = NoException

\* times in milliseconds: every one up to MaxMs, the example of the
\* specification, and times around one hundred hours
TimeInputs == (0..MaxMs) \cup {3725400, 359999999, 360000000, 360000500}

TimeInit ==
    /\ IdlePipeline
    /\ arg \in TimeInputs
    /\ ret = <<>>
    /\ called = FALSE

ConvertTime ==
    /\ ~called
    /\ ret' = convert_seconds_to_srt_time(arg)
    /\ called' = TRUE
    /\ UNCHANGED <<arg, pipelineVars>>

TimeNext == ConvertTime

SpecTime == TimeInit /\ [][TimeNext]_vars

TextChars == {"a", " ", "\n", "\r"}

SrtTexts == SeqsUpTo(TextChars, MaxTextLen)

SrtSpans == {<<0, 2000>>, <<2500, 3725400>>}

SrtSegments ==
    {[start |-> sp[1], end |-> sp[2], text |-> tx] : sp \in SrtSpans, tx \in SrtTexts}

SrtInit ==
    /\ IdlePipeline
    /\ arg \in SeqsUpTo(SrtSegments, MaxSrtSegs)
    /\ ret = <<>>
    /\ called = FALSE

GenerateSrt ==
    /\ ~called
    /\ ret' = generate_new_srt(arg)
    /\ called' = TRUE
    /\ UNCHANGED <<arg, pipelineVars>>

SrtNext == GenerateSrt

SpecSrt == SrtInit /\ [][SrtNext]_vars

TracebackChars == {"x", "&", "<", ">", "\"", "'"}

TracebackLens ==
    {1, 500, MAX_TRACEBACK_LEN, MAX_TRACEBACK_LEN + 1, 2 * MAX_TRACEBACK_LEN}

Tracebacks ==
    {<<>>}
    \cup {<<Run(<<c>>, n)>> : c \in TracebackChars, n \in TracebackLens}
    \cup {<<Run(<<"x">>, MAX_TRACEBACK_LEN - 10), Run(<<c>>, 20)>> :
            c \in TracebackChars}

ErrorMessages == {<<>>, ErrorNote("RuntimeError"), Lit(500)}

ErrInit ==
    /\ IdlePipeline
    /\ arg \in [error_message : ErrorMessages, full_traceback : Tracebacks]
    /\ ret = <<>>
    /\ called = FALSE

SendError ==
    /\ ~called
    /\ \E first_raises \in BOOLEAN :
         /\ TextLen(ErrorFullMessage(arg.error_message, arg.full_traceback))
               > MAX_MESSAGE_LEN => first_raises
         /\ ret' = safe_send_error_message(arg.error_message,
                                           arg.full_traceback, first_raises)
    /\ called' = TRUE
    /\ UNCHANGED <<arg, pipelineVars>>

ErrNext == SendError

SpecErr == ErrInit /\ [][ErrNext]_vars

----------------------------------------------------------------------------
(* Properties *)

Made(fn, kind) == \E i \in 1..Len(calls) : calls[i] = Call(fn, kind)

Invoked(fn) == \E i \in 1..Len(calls) : calls[i].fn = fn

\* get_transcript_and_translation has ended after the translation was
\* parsed as an array
Reconciled == engine \in {"returned", "raised"} /\ Made("translate", "array")

\* the transcription answered with no segments
NoSegments == Made("transcribe", "ok") /\ whisper.segments = <<>>

\* C1: when the translated array has as many entries as there are original
\* segments, the rebuilt segment list has that length, keeps the start and
\* end of every original segment in order, and carries translated entry i
\* as the text of segment i.
C1_ExactMatch ==
    (Reconciled /\ Len(translated_texts) = Len(whisper.segments))
    => /\ engine = "returned"
       /\ Len(final_segments) = Len(whisper.segments)
       /\ \A i \in 1..Len(whisper.segments) :
            /\ final_segments[i].start = whisper.segments[i].start
            /\ final_segments[i].end = whisper.segments[i].end
            /\ final_segments[i].text = translated_texts[i]

C1_Witness ==
    /\ Reconciled
    /\ engine = "returned"
    /\ Len(whisper.segments) = 2
    /\ Len(translated_texts) = 2
    /\ translated_texts[1] # translated_texts[2]
    /\ whisper.segments[1] # whisper.segments[2]

\* C2: when the translated array has M entries for N segments and M # N,
\* get_transcript_and_translation raises to its caller an error carrying N
\* and M, and builds neither a segment list nor SRT text.
C2_CountMismatch ==
    (Reconciled /\ Len(translated_texts) # Len(whisper.segments))
    => /\ engine = "raised"
       /\ exc.type = "RuntimeError"
       /\ exc.stage = "mismatch"
       /\ exc.expected = Len(whisper.segments)
       /\ exc.got = Len(translated_texts)
       /\ final_segments = <<>>
       /\ srt = <<>>
       /\ pc \in {"except", "finally", "done"}

C2_Witness ==
    /\ Reconciled
    /\ pc = "done"
    /\ Len(whisper.segments) = 1
    /\ Len(translated_texts) = 2

\* the rendering C3 states for t milliseconds
ClaimedTime(t) ==
    Format0(t \div 3600000, 2) \o <<":">>
    \o Format0((t \div 60000) % 60, 2) \o <<":">>
    \o Format0((t \div 1000) % 60, 2) \o <<",">>
    \o Format0(t % 1000, 3)

\* C3: for a time of t whole milliseconds, convert_seconds_to_srt_time
\* renders hours t div 3600000 (two digits or more), minutes and seconds in
\* two digits and t mod 1000 in three digits.
C3_TimeFormat == called => ret = ClaimedTime(arg)

\* the output C4 states: entry k is the index k, the line of the two times
\* and the text of segment k, with one blank line between entries
RECURSIVE ClaimedSrtFrom(_, _)
ClaimedSrtFrom(segs, k) ==
    Decimal(k) \o <<"\n">>
    \o convert_seconds_to_srt_time(segs[k].start) \o <<" ", "-", "-", ">", " ">>
    \o convert_seconds_to_srt_time(segs[k].end) \o <<"\n">>
    \o segs[k].text
    \o ( IF k = Len(segs) THEN <<>>
         ELSE <<"\n", "\n">> \o ClaimedSrtFrom(segs, k + 1) )

\* C4: for N >= 1 segments generate_new_srt emits N entries in order, each
\* the index, the line 'start --> end' and the unchanged text of its
\* segment, with exactly one blank line between consecutive entries.
C4_SrtFormat == (called /\ Len(arg) >= 1) => ret = ClaimedSrtFrom(arg, 1)

\* C5 as stated: a transcript text without segments yields one segment from
\* 0 to the video duration carrying the whole translated text.
C5_WholeTextFallback ==
    (pc = "done" /\ NoSegments /\ whisper.text # <<>>)
    => /\ engine = "returned"
       /\ Len(final_segments) = 1
       /\ final_segments[1].start = 0
       /\ final_segments[1].end = duration * 1000

\* C5 as amended: a transcript text without segments makes
\* get_transcript_and_translation raise RuntimeError ("Whisper did not
\* return valid segments") to its caller; the translation is not requested
\* and no segment or SRT text is produced.
C5_NoSegmentsRaises ==
    (NoSegments /\ whisper.text # <<>>)
    => /\ engine = "raised"
       /\ exc = Wrap(NoSegmentsError)
       /\ ~Invoked("translate")
       /\ final_segments = <<>>
       /\ srt = <<>>

C5_Witness == pc = "done" /\ NoSegments /\ whisper.text # <<>>

ErrorNoticeSent == \E i \in 1..Len(calls) :
    /\ calls[i].fn = "send_message"
    /\ calls[i].kind = "error"

\* C6: when the transcription yields no segments (or the resulting SRT is
\* empty), the condition reaches the caller of
\* get_transcript_and_translation, and in that run no subtitle file is
\* written, burn_subtitles_fast and send_video are not called, and the user
\* is sent a failure notice.
C6_EmptyTranscript ==
    /\ NoSegments
       => /\ engine = "raised"
          /\ exc.stage = "no_segments"
          /\ pc \in {"except", "finally", "done"}
          /\ "sub" \notin files \cup temp_paths
          /\ ~Invoked("burn")
          /\ ~Invoked("send_video")
          /\ pc = "done" => ErrorNoticeSent
    /\ (engine = "returned" /\ srt = <<>>)
       => /\ "sub" \notin files \cup temp_paths
          /\ ~Invoked("burn")
          /\ ~Invoked("send_video")
          /\ pc = "done" => Made("edit_message_text", "no_text")

C6_Witness == pc = "done" /\ NoSegments /\ whisper.text = <<>>

\* some transcribed segment ends after the five-minute mark
EndsAfterLimit ==
    \E i \in 1..Len(whisper.segments) :
        whisper.segments[i].end > MAX_DURATION * 1000

\* C7: for a video longer than 300 seconds the handler only sends one
\* rejection message: nothing is fetched or downloaded, no temp file is
\* created and no stage of the pipeline is invoked.  The engine itself
\* checks no duration: segments ending after 300 s are rebuilt and
\* rendered like any other.
C7_DurationLimit ==
    /\ duration > MAX_DURATION
       => /\ pc \in {"start", "done"}
          /\ files = {}
          /\ temp_paths = {}
          /\ engine = "idle"
          /\ calls = IF pc = "done"
                     THEN <<Call("send_message", "too_long")>>
                     ELSE <<>>
    /\ (Reconciled /\ EndsAfterLimit
            /\ Len(translated_texts) = Len(whisper.segments))
       => /\ engine = "returned"
          /\ srt = generate_new_srt(final_segments)
          /\ \A i \in 1..Len(final_segments) :
                final_segments[i].end = whisper.segments[i].end

C7_Witness == duration = MAX_DURATION + 1 /\ pc = "done"

\* C8: the full_message handed to the first bot.send_message is at most
\* 4096 characters long.
C8_MessageFits == called => TextLen(ret[1].text) <= MAX_MESSAGE_LEN

StageFns == {"ffmpeg_extract", "transcribe", "translate", "burn", "send_video"}

FailedCall(c) ==
    /\ c.fn \in {"ffmpeg_extract", "transcribe", "translate", "burn"}
    /\ c.kind \in {"raises", "malformed", "not_array"}

\* C9: after audio extraction, transcription, translation (a malformed
\* answer included) or subtitle burning fails, the failed call is not made
\* again, no later stage runs, send_video is not called, and an error
\* message has been sent to the chat when the run ends.
C9_FailuresSurfaced ==
    \A i \in 1..Len(calls) :
        FailedCall(calls[i])
        => /\ \A j \in (i + 1)..Len(calls) : calls[j].fn \notin StageFns
           /\ pc = "done"
              => \E j \in (i + 1)..Len(calls) :
                    /\ calls[j].fn = "send_message"
                    /\ calls[j].kind = "error"

C9_Witness == pc = "done" /\ Made("burn", "raises")

\* C10: when a handle_video run ends, every temp file created during it has
\* been deleted.
C10_TempFilesDeleted == pc = "done" => files = {}

====
